---- MODULE Spec2Model ----
(***************************************************************************)
(* State-machine model of the Firebase connection manager                  *)
(* (src/configfirebase_config.py): the singleton FirebaseConnection, its   *)
(* initialize / get_client operations, the three reference accessors and   *)
(* the acquisition of the singleton.                                       *)
(*                                                                         *)
(* Optional values (Python None / an object) are sequences of length 0 or  *)
(* 1: None == <<>>, Some(x) == <<x>>.                                      *)
(*                                                                         *)
(* The external SDK and the filesystem are the environment.  Each          *)
(* connection attempt gets an input that names the external call that      *)
(* raises in this attempt:                                                 *)
(*   "ok"          nothing raises                                          *)
(*   "app_fail"    credentials.Certificate / initialize_app raises         *)
(*   "client_fail" firestore.client() raises                               *)
(*   "write_fail"  test_ref.set(...) raises                                *)
(* and every liveness read gets a boolean: the read succeeds or raises.    *)
(*                                                                         *)
(* trace is the sequence of observable events (log records, external       *)
(* calls, the final return or raise) of the most recent top-level call.    *)
(***************************************************************************)
EXTENDS Integers, Sequences, FiniteSets, TLC

\* ---------------------------------------------------------------- bounds
\* threads that call FirebaseConnection() concurrently once the module is
\* imported
NThreads == 4

\* cap on the failed-attempt counter (the code never bounds it)
MaxCounter == 6

\* ------------------------------------------------------------ input sets
None == <<>>
Some(x) == <<x>>

Paths == {"creds.json", "missing.json"}
\* the credential files present on disk
ExistingPaths == {"creds.json"}
Projects == {"p1", "p2"}

\* FirebaseConfig dataclass
FirebaseConfig ==
    [credentials_path : Paths, project_id : Projects, enable_offline_mode : BOOLEAN]

Outcomes == {"ok", "app_fail", "client_fail", "write_fail"}

Threads == 1 .. NThreads

\* the thread that imports the module and so executes line 123
Importer == 0

AllThreads == {Importer} \cup Threads

\* --------------------------------------------------------------- state
VARIABLES
    instance,             \* cls._instance: None or Some(id)
    created,              \* number of FirebaseConnection objects ever created
    client,               \* _client: None or Some(handle)
    app,                  \* firebase_admin default app / _app: None or Some(app)
    config,               \* self._config: None or Some(FirebaseConfig)
    connection_attempts,  \* self._connection_attempts
    connection_test,      \* document system_health/connection_test
    acquired,             \* instance returned by the most recent acquisition
    last_init,            \* most recent initialize invocation: None or Some([config, result])
    entry_attempts,       \* _connection_attempts when the most recent call began
    op,                   \* name of the most recent top-level call
    arg,                  \* its config argument (initialize) or None
    result,               \* its outcome kind
    returned,             \* the object it returned: None or Some(...)
    trace,                \* its events
    th,                   \* per thread: its position inside FirebaseConnection()
    ex                    \* ExchangeType conversion under check

vars == <<instance, created, client, app, config, connection_attempts,
          connection_test, acquired, last_init, entry_attempts, op, arg, result, returned, trace, th, ex>>

\* self._max_attempts = 3
max_attempts == 3

\* fault variant: the existence check is skipped
FileExists_unchecked(path) == TRUE

\* os.path.exists(config.credentials_path)
FileExists(path) == path \in ExistingPaths

Ev(e, n) == [ev |-> e, n |-> n]

Log(s, e, n) == [s EXCEPT !.trace = Append(@, Ev(e, n))]

\* the manager and its environment as one record, threaded through a call
Cur ==
    [client |-> client, app |-> app, config |-> config,
     connection_attempts |-> connection_attempts,
     connection_test |-> connection_test, last_init |-> last_init,
     trace |-> <<>>]

\* ------------------------------------------------- initialize, one attempt
\* fault variant: the app is created in every attempt
AppMissing_always(s) == TRUE

\* firebase_admin._DEFAULT_APP_NAME not in firebase_admin._apps
AppMissing(s) == s.app = None

\* credentials.Certificate(path); initialize_app(cred, {'projectId': ...})
CreateApp(s, cfg, attempt) ==
    Log(Log([s EXCEPT !.app = Some([credentials_path |-> cfg.credentials_path,
                                    project_id |-> cfg.project_id])],
            "initialize_app", attempt + 1),
        "log_info_app", attempt + 1)

\* self._client = firestore.client(): the client of the default app
ObtainClient(s, attempt) ==
    Log([s EXCEPT !.client = Some([project_id |-> s.app[1].project_id])],
        "client", attempt + 1)

\* fault variant: the attempt field is the 0-based loop index
TestWrite_zero_based(s, attempt) ==
    Log([s EXCEPT !.connection_test =
                      Some([status |-> "connected", attempt |-> attempt])],
        "set_ok", attempt)

\* test_ref.set({'timestamp', 'status': 'connected', 'attempt': attempt + 1},
\* merge=True) on system_health/connection_test; the timestamp is the wall
\* clock and is not part of the state
TestWrite(s, attempt) ==
    Log([s EXCEPT !.connection_test =
                      Some([status |-> "connected", attempt |-> attempt + 1])],
        "set_ok", attempt + 1)

\* the try block of one attempt: [st, ok], ok = FALSE when a call raised
TryBody(s, cfg, attempt, out) ==
    LET s0 == Log(s, "attempt", attempt + 1)
    IN  IF AppMissing(s0) /\ out = "app_fail"
        THEN [st |-> Log(s0, "exc_app", attempt + 1), ok |-> FALSE]
        ELSE LET s1 == IF AppMissing(s0) THEN CreateApp(s0, cfg, attempt) ELSE s0
             IN  IF out = "client_fail"
                 THEN [st |-> Log(s1, "exc_client", attempt + 1), ok |-> FALSE]
                 ELSE LET s2 == ObtainClient(s1, attempt)
                      IN  IF out = "write_fail"
                          THEN [st |-> Log(s2, "exc_set", attempt + 1), ok |-> FALSE]
                          ELSE [st |-> TestWrite(s2, attempt), ok |-> TRUE]

\* fault variant: success does not reset the counter
OnSuccess_noreset(s) ==
    Log(Log(s, "log_info_connected", 0), "return_True", 0)

\* logger.info(...); self._connection_attempts = 0; return True
OnSuccess(s) ==
    Log(Log([s EXCEPT !.connection_attempts = 0], "log_info_connected", 0),
        "return_True", 0)

\* except: self._connection_attempts += 1; logger.error(attempt + 1)
OnFailure(s, attempt) ==
    Log([s EXCEPT !.connection_attempts = @ + 1], "log_error_attempt", attempt + 1)

\* fault variant: off by one, the retries are given up one attempt early
IsLastAttempt_early(attempt) == attempt = max_attempts - 2

\* attempt == self._max_attempts - 1
IsLastAttempt(attempt) == attempt = max_attempts - 1

\* fault variant: exhaustion raises also in offline mode
Exhausted_raises(s, cfg) ==
    [st |-> Log(Log(s, "log_critical", 0), "raise_ConnectionFailure", 0),
     result |-> "ConnectionFailure"]

\* the last attempt failed: critical log, then degrade or raise
Exhausted(s, cfg) ==
    LET s1 == Log(s, "log_critical", 0)
    IN  IF cfg.enable_offline_mode
        THEN [st |-> Log(Log(s1, "log_warning_cache", 0), "return_False", 0),
              result |-> "False"]
        ELSE [st |-> Log(s1, "raise_ConnectionFailure", 0),
              result |-> "ConnectionFailure"]

\* for attempt in range(self._max_attempts): ...; return False
RECURSIVE RetryLoop(_, _, _, _)
RetryLoop(s, cfg, attempt, outs) ==
    IF attempt >= max_attempts
    THEN [st |-> Log(s, "return_False", 0), result |-> "False"]
    ELSE LET t == TryBody(s, cfg, attempt, outs[attempt])
         IN  IF t.ok
             THEN [st |-> OnSuccess(t.st), result |-> "True"]
             ELSE LET f == OnFailure(t.st, attempt)
                  IN  IF IsLastAttempt(attempt)
                      THEN Exhausted(f, cfg)
                      ELSE RetryLoop(f, cfg, attempt + 1, outs)

\* fault variant: the missing file is not logged
MissingFile_silent(s, cfg) ==
    IF cfg.enable_offline_mode
    THEN [st |-> Log(s, "return_False", 0), result |-> "False"]
    ELSE [st |-> Log(s, "raise_MissingCredentials", 0), result |-> "MissingCredentials"]

\* credential file missing: error log, then degrade or raise
MissingFile(s, cfg) ==
    LET s1 == Log(s, "log_error_missing", 0)
    IN  IF cfg.enable_offline_mode
        THEN [st |-> Log(Log(s1, "log_warning_offline", 0), "return_False", 0),
              result |-> "False"]
        ELSE [st |-> Log(s1, "raise_MissingCredentials", 0),
              result |-> "MissingCredentials"]

\* fault variant: the config is not stored
StoreConfig_skipped(s, cfg) == s

\* fault variant: the counter is reset when initialize begins
StoreConfig_reset(s, cfg) == [s EXCEPT !.config = Some(cfg), !.connection_attempts = 0]

\* self._config = config
StoreConfig(s, cfg) == [s EXCEPT !.config = Some(cfg)]

\* FirebaseConnection.initialize(config); outs[a] is the environment's input
\* to attempt a (0-based)
initialize(s, cfg, outs) ==
    LET s1 == StoreConfig(s, cfg)
        r  == IF ~FileExists(cfg.credentials_path)
              THEN MissingFile(s1, cfg)
              ELSE RetryLoop(s1, cfg, 0, outs)
    IN  [st |-> [r.st EXCEPT !.last_init = Some([config |-> cfg, result |-> r.result])],
         result |-> r.result]

\* ------------------------------------------------------------ get_client
\* self._config and self._config.enable_offline_mode
OfflineConfigured(s) == s.config # None /\ s.config[1].enable_offline_mode

\* fault variant: the offline message is raised whatever the stored config
NoClient_offline(s) ==
    [st |-> Log(s, "raise_OfflineModeActive", 0),
     result |-> "OfflineModeActive", returned |-> None]

\* if self._client is None: raise RuntimeError(...)
NoClient(s) ==
    IF OfflineConfigured(s)
    THEN [st |-> Log(s, "raise_OfflineModeActive", 0),
          result |-> "OfflineModeActive", returned |-> None]
    ELSE [st |-> Log(s, "raise_NotInitialized", 0),
          result |-> "NotInitialized", returned |-> None]

\* a client handle given to the caller; path is "" for the bare client
Handle(c, path) == Some([client |-> c[1], path |-> path])

\* fault variant: a lost connection is never re-initialized
Reconnect_never(s, outs) ==
    [st |-> Log(Log(s, "log_error_lost", 0), "raise_ConnectionLost", 0),
     result |-> "ConnectionLost", returned |-> None]

\* fault variant: without a stored config the stale handle is returned
Reconnect_stale(s, outs) ==
    LET s1 == Log(s, "log_error_lost", 0)
    IN  IF s1.config # None
        THEN LET r == initialize(Log(s1, "call_initialize", 0), s1.config[1], outs)
             IN  IF r.result \in {"True", "False"}
                 THEN [st |-> Log(r.st, "return_client", 0),
                       result |-> "client", returned |-> Handle(r.st.client, "")]
                 ELSE [st |-> r.st, result |-> r.result, returned |-> None]
        ELSE [st |-> Log(s1, "return_client", 0),
              result |-> "client", returned |-> Handle(s1.client, "")]

\* fault variant: the liveness read is repeated after the re-initialization
Reconnect_recheck(s, outs) ==
    LET s1 == Log(s, "log_error_lost", 0)
    IN  IF s1.config # None
        THEN LET r == initialize(Log(s1, "call_initialize", 0), s1.config[1], outs)
             IN  IF r.result \in {"True", "False"}
                 THEN [st |-> Log(Log(r.st, "read_ok", 0), "return_client", 0),
                       result |-> "client", returned |-> Handle(r.st.client, "")]
                 ELSE [st |-> r.st, result |-> r.result, returned |-> None]
        ELSE [st |-> Log(s1, "raise_ConnectionLost", 0),
              result |-> "ConnectionLost", returned |-> None]

\* except: logger.error("connection lost"); reconnect when a config is stored
Reconnect(s, outs) ==
    LET s1 == Log(s, "log_error_lost", 0)
    IN  IF s1.config # None
        THEN LET r == initialize(Log(s1, "call_initialize", 0), s1.config[1], outs)
             IN  IF r.result \in {"True", "False"}
                 THEN [st |-> Log(r.st, "return_client", 0),
                       result |-> "client", returned |-> Handle(r.st.client, "")]
                 ELSE [st |-> r.st, result |-> r.result, returned |-> None]
        ELSE [st |-> Log(s1, "raise_ConnectionLost", 0),
              result |-> "ConnectionLost", returned |-> None]

\* FirebaseConnection.get_client(); readOk: the liveness read succeeds
get_client(s, readOk, outs) ==
    IF s.client = None
    THEN NoClient(s)
    ELSE IF readOk
         THEN [st |-> Log(Log(s, "read_ok", 0), "return_client", 0),
               result |-> "client", returned |-> Handle(s.client, "")]
         ELSE Reconnect(Log(s, "read_fail", 0), outs)

\* fault variant: the two collection names are swapped
RefPath_swapped(name) ==
    CASE name = "get_system_state_ref"     -> "system_state/acth_main"
      [] name = "get_trading_log_ref"      -> "correlation_data"
      [] name = "get_correlation_data_ref" -> "trading_logs"

\* ------------------------------------------------------------- accessors
RefPath(name) ==
    CASE name = "get_system_state_ref"     -> "system_state/acth_main"
      [] name = "get_trading_log_ref"      -> "trading_logs"
      [] name = "get_correlation_data_ref" -> "correlation_data"

Accessors == {"get_system_state_ref", "get_trading_log_ref", "get_correlation_data_ref"}

\* self.get_client().collection(...)[.document(...)]
get_ref(s, name, readOk, outs) ==
    LET r == get_client(s, readOk, outs)
    IN  IF r.result = "client"
        THEN [st |-> r.st, result |-> "ref",
              returned |-> Some([client |-> r.returned[1].client, path |-> RefPath(name)])]
        ELSE r

\* ------------------------------------------------------------ acquisition
\* fault variant: the check always finds no instance
InstanceIsNone_always(inst) == TRUE

\* if cls._instance is None
InstanceIsNone(inst) == inst = None

\* FirebaseConnection.__new__: create the instance only when none exists
New(inst, n) == IF InstanceIsNone(inst) THEN [instance |-> Some(n + 1), created |-> n + 1]
                ELSE [instance |-> inst, created |-> n]

\* FirebaseConnection.__init__, run by every FirebaseConnection() call
InitFields(s) == [s EXCEPT !.config = None, !.connection_attempts = 0]

\* ---------------------------------------------------------------- actions
\* the inputs to the attempts of one call; an attempt after a successful one
\* is never made, so its input is fixed to "ok"
AttemptInputs ==
    {f \in [0 .. max_attempts - 1 -> Outcomes] :
        \A a \in DOMAIN f : f[a] = "ok" => \A b \in DOMAIN f : b > a => f[b] = "ok"}

AllOk == [a \in 0 .. max_attempts - 1 |-> "ok"]

\* the attempts are reached only when the credential file exists
InitInputs(cfg) == IF FileExists(cfg.credentials_path) THEN AttemptInputs ELSE {AllOk}

\* a reconnection is reached only when the liveness read fails
ReadInputs(readOk) == IF readOk THEN {AllOk} ELSE AttemptInputs

Commit(r, name, a) ==
    /\ r.st.connection_attempts <= MaxCounter
    /\ client' = r.st.client
    /\ app' = r.st.app
    /\ config' = r.st.config
    /\ connection_attempts' = r.st.connection_attempts
    /\ connection_test' = r.st.connection_test
    /\ last_init' = r.st.last_init
    /\ trace' = r.st.trace
    /\ entry_attempts' = connection_attempts
    /\ op' = name
    /\ arg' = a
    /\ result' = r.result
    /\ returned' = r.returned
    /\ UNCHANGED <<instance, created, acquired, th, ex>>

\* firebase_conn.initialize(cfg)
Initialize ==
    \E cfg \in FirebaseConfig : \E outs \in InitInputs(cfg) :
        \E r \in {initialize(Cur, cfg, outs)} :
            Commit([st |-> r.st, result |-> r.result, returned |-> None],
                   "initialize", Some(cfg))

\* firebase_conn.get_client()
GetClient ==
    \E readOk \in BOOLEAN : \E outs \in ReadInputs(readOk) :
        \E r \in {get_client(Cur, readOk, outs)} :
            Commit(r, "get_client", None)

\* firebase_conn.get_system_state_ref() and its two siblings
GetRef ==
    \E name \in Accessors, readOk \in BOOLEAN : \E outs \in ReadInputs(readOk) :
        \E r \in {get_ref(Cur, name, readOk, outs)} :
            Commit(r, name, None)

\* FirebaseConnection(): __new__ then __init__
Construct ==
    LET n == New(instance, created)
        s == InitFields(Cur)
    IN  /\ instance' = n.instance
        /\ created' = n.created
        /\ acquired' = n.instance[1]
        /\ config' = s.config
        /\ connection_attempts' = s.connection_attempts
        /\ entry_attempts' = connection_attempts
        /\ op' = "FirebaseConnection"
        /\ arg' = None
        /\ result' = "instance"
        /\ returned' = None
        /\ trace' = <<>>
        /\ UNCHANGED <<client, app, connection_test, last_init, th, ex>>

\* a use of the module global firebase_conn
UseGlobal ==
    /\ acquired' = 1
    /\ entry_attempts' = connection_attempts
    /\ op' = "firebase_conn"
    /\ arg' = None
    /\ result' = "instance"
    /\ returned' = None
    /\ trace' = <<>>
    /\ UNCHANGED <<instance, created, client, app, config, connection_attempts,
                   connection_test, last_init, th, ex>>

\* no thread has entered FirebaseConnection(): the class is defined, line 123
\* has not run yet
ThreadsIdle == [t \in AllThreads |-> [pc |-> "idle", saw |-> FALSE, obj |-> 0, ret |-> 0]]

\* line 123 has run in the importing thread: it found no instance, created
\* object 1 and got it back; no other thread has entered FirebaseConnection()
ThreadsImported ==
    [ThreadsIdle EXCEPT ![Importer] = [pc |-> "done", saw |-> TRUE, obj |-> 1, ret |-> 1]]

\* no ExchangeType conversion is under check
ExIdle == [pc |-> "idle", member |-> "", text |-> "", value |-> "", found |-> None]

\* the fields of the manager and the call history before any call
Fresh ==
    /\ client = None
    /\ app = None
    /\ config = None
    /\ connection_attempts = 0
    /\ connection_test = None
    /\ last_init = None
    /\ entry_attempts = 0
    /\ op = "import"
    /\ arg = None
    /\ result = "instance"
    /\ returned = None
    /\ trace = <<>>

\* the state once the module is imported: firebase_conn = FirebaseConnection()
Init ==
    /\ instance = Some(1)
    /\ created = 1
    /\ acquired = 1
    /\ th = ThreadsImported
    /\ ex = ExIdle
    /\ client = None
    /\ app = None
    /\ config = None
    /\ connection_attempts = 0
    /\ connection_test = None
    /\ last_init = None
    /\ entry_attempts = 0
    /\ op = "import"
    /\ arg = None
    /\ result = "instance"
    /\ returned = None
    /\ trace = <<>>

Next == Initialize \/ GetClient \/ GetRef \/ Construct \/ UseGlobal

Spec == Init /\ [][Next]_vars

\* ------------------------------------- FirebaseConnection() step by step
\* the fields of the singleton and the call history, untouched by __new__
ManagerVars ==
    <<client, app, config, connection_attempts, connection_test, acquired,
      last_init, entry_attempts, op, arg, result, returned, trace>>

\* lines 122-123: the module's last statement is the first acquisition; the
\* names FirebaseConnection and firebase_conn reach other threads only
\* through the finished import
MayEnter(t) == t = Importer \/ th[Importer].pc = "done"

\* line 33: if cls._instance is None
ThCheck(t) ==
    /\ th[t].pc = "idle"
    /\ MayEnter(t)
    /\ th' = [th EXCEPT ![t].pc = IF InstanceIsNone(instance) THEN "create" ELSE "return",
                        ![t].saw = InstanceIsNone(instance)]
    /\ UNCHANGED <<instance, created, ManagerVars, ex>>

\* line 34, right-hand side: super().__new__(cls) allocates an object
ThCreate(t) ==
    /\ th[t].pc = "create"
    /\ created' = created + 1
    /\ th' = [th EXCEPT ![t].pc = "assign", ![t].obj = created + 1]
    /\ UNCHANGED <<instance, ManagerVars, ex>>

\* line 34, the store: cls._instance = <the object>
ThAssign(t) ==
    /\ th[t].pc = "assign"
    /\ instance' = Some(th[t].obj)
    /\ th' = [th EXCEPT ![t].pc = "return"]
    /\ UNCHANGED <<created, ManagerVars, ex>>

\* line 35: return cls._instance
ThReturn(t) ==
    /\ th[t].pc = "return"
    /\ th' = [th EXCEPT ![t].pc = "init", ![t].ret = instance[1]]
    /\ UNCHANGED <<instance, created, ManagerVars, ex>>

\* lines 37-40: __init__ on the returned object
ThInit(t) ==
    /\ th[t].pc = "init"
    /\ config' = None
    /\ connection_attempts' = 0
    /\ th' = [th EXCEPT ![t].pc = "done"]
    /\ UNCHANGED <<instance, created, client, app, connection_test, acquired,
                   last_init, entry_attempts, op, arg, result, returned, trace, ex>>

\* the module under import: the class is defined (lines 28-30, no instance
\* yet) and line 123 is about to run in the importing thread.  The other
\* threads acquire only after that (MayEnter).
InitThreads ==
    /\ instance = None
    /\ created = 0
    /\ acquired = 0
    /\ th = ThreadsIdle
    /\ ex = ExIdle
    /\ Fresh

NextThreads ==
    \E t \in AllThreads :
        ThCheck(t) \/ ThCreate(t) \/ ThAssign(t) \/ ThReturn(t) \/ ThInit(t)

SpecThreads == InitThreads /\ [][NextThreads]_vars

\* ------------------------------------- ExchangeType (coredata_fetcher.py)
\* the members of the enumeration, in definition order
ExchangeMembers == <<"BINANCE", "COINBASE", "KRAKEN", "FTX", "BYBIT">>

MemberSet == {ExchangeMembers[i] : i \in DOMAIN ExchangeMembers}

\* fault variant: a copied line gives BYBIT the literal of FTX
ExchangeValue_copied(m) ==
    CASE m = "BINANCE"  -> "binance"
      [] m = "COINBASE" -> "coinbase"
      [] m = "KRAKEN"   -> "kraken"
      [] m = "FTX"      -> "ftx"
      [] m = "BYBIT"    -> "ftx"

\* member.value: the string literal of a member
ExchangeValue(m) ==
    CASE m = "BINANCE"  -> "binance"
      [] m = "COINBASE" -> "coinbase"
      [] m = "KRAKEN"   -> "kraken"
      [] m = "FTX"      -> "ftx"
      [] m = "BYBIT"    -> "bybit"

\* ExchangeType(text): the enum's lookup by value; the first member defined
\* with that value (a later one would be its alias), None for ValueError
ExchangeLookup(text) ==
    LET hits == {i \in DOMAIN ExchangeMembers : ExchangeValue(ExchangeMembers[i]) = text}
    IN  IF hits = {} THEN None
        ELSE Some(ExchangeMembers[CHOOSE i \in hits : \A j \in hits : i <= j])

\* the strings tried as input: the literals, member names, near misses
Texts ==
    {"binance", "coinbase", "kraken", "ftx", "bybit",
     "BINANCE", "Binance", "FTX", "ftx ", "okx", "huobi", ""}

\* value = member.value
ExToValue ==
    /\ ex.pc = "input"
    /\ ex' = [ex EXCEPT !.pc = "value", !.value = ExchangeValue(ex.member)]
    /\ UNCHANGED <<instance, created, ManagerVars, th>>

\* found = ExchangeType(value)
ExRoundTrip ==
    /\ ex.pc = "value"
    /\ ex' = [ex EXCEPT !.pc = "round", !.found = ExchangeLookup(ex.value)]
    /\ UNCHANGED <<instance, created, ManagerVars, th>>

\* found = ExchangeType(text)
ExFromText ==
    /\ ex.pc = "input"
    /\ ex' = [ex EXCEPT !.pc = "parsed", !.found = ExchangeLookup(ex.text)]
    /\ UNCHANGED <<instance, created, ManagerVars, th>>

\* a member and a string are chosen, then converted
InitExchange ==
    /\ instance = Some(1)
    /\ created = 1
    /\ acquired = 1
    /\ th = ThreadsImported
    /\ ex \in [pc : {"input"}, member : MemberSet, text : Texts,
                value : {""}, found : {None}]
    /\ Fresh

NextExchange == ExToValue \/ ExRoundTrip \/ ExFromText

SpecExchange == InitExchange /\ [][NextExchange]_vars

\* ------------------------------------------------- reading the call trace
HasIn(tr, e, n) == \E i \in DOMAIN tr : tr[i] = Ev(e, n)

CountIn(tr, e) == Cardinality({i \in DOMAIN tr : tr[i].ev = e})

Has(e, n) == HasIn(trace, e, n)

Count(e) == CountIn(trace, e)

\* connection attempts made by the most recent call
AttemptsMade == Count("attempt")

\* some attempt of the most recent call completed its test write
WriteSucceeded == Count("set_ok") > 0

\* every event e is followed, later in the trace, by the event last
Before(e, n, last) ==
    \E i, j \in DOMAIN trace : i < j /\ trace[i] = Ev(e, n) /\ trace[j] = Ev(last, 0)

GetOps == Accessors \cup {"get_client"}

\* the most recent call handed a client handle, or a reference on one, back
Returned == result \in {"client", "ref"} /\ returned # None

\* ------------------------------------------------------------------ C1
\* C1: initialize with an existing credential file and offline mode
\* disabled, all of whose attempts fail, fails with ConnectionFailure after
\* exactly 3 attempts, each failed attempt logged before the raise; and
\* ConnectionFailure is never the outcome of a call that made 1, 2 or 4
\* attempts.
C1_ConnectionFailureAfterThree ==
    /\ (/\ op = "initialize"
        /\ arg[1].credentials_path \in ExistingPaths
        /\ ~arg[1].enable_offline_mode
        /\ ~WriteSucceeded)
       => /\ result = "ConnectionFailure"
          /\ AttemptsMade = 3
          /\ Count("log_error_attempt") = 3
          /\ \A k \in 1 .. 3 : Before("log_error_attempt", k, "raise_ConnectionFailure")
          /\ trace[Len(trace)] = Ev("raise_ConnectionFailure", 0)
    /\ result = "ConnectionFailure" => AttemptsMade = 3

C1_Witness ==
    /\ op = "initialize"
    /\ result = "ConnectionFailure"
    /\ ~arg[1].enable_offline_mode
    /\ Has("exc_set", 3)

\* ------------------------------------------------------------------ C2
\* C2: when attempt k of initialize is the first whose test write succeeds,
\* initialize returns True right after that attempt (k attempts made, k - 1
\* of them failed), and the failed-attempt counter is 0 afterwards whatever
\* it was when the call began; an attempt 1 that raises nothing returns True.
C2_SuccessStopsAndResets ==
    op = "initialize" =>
        /\ \A k \in 1 .. 3 :
              Has("set_ok", k) =>
                  /\ result = "True"
                  /\ AttemptsMade = k
                  /\ Count("log_error_attempt") = k - 1
                  /\ Count("set_ok") = 1
                  /\ connection_attempts = 0
                  /\ trace[Len(trace)] = Ev("return_True", 0)
        /\ result = "True" => WriteSucceeded
        /\ (AttemptsMade >= 1 /\ Count("log_error_attempt") = 0) => Has("set_ok", 1)

C2_Witness ==
    /\ op = "initialize"
    /\ result = "True"
    /\ Has("set_ok", 2)
    /\ entry_attempts > 0
    /\ connection_attempts = 0

\* ------------------------------------------------------------------ C3
\* C3: initialize with a missing credential file and offline mode disabled
\* fails with MissingCredentials, makes no connection attempt, creates no
\* app and no client, writes nothing to system_health/connection_test and
\* leaves the failed-attempt counter as it was.
C3_MissingCredentialsNoAttempt ==
    [][(/\ op' = "initialize"
        /\ arg'[1].credentials_path \notin ExistingPaths
        /\ ~arg'[1].enable_offline_mode)
       => /\ result' = "MissingCredentials"
          /\ Cardinality({i \in DOMAIN trace' :
                 trace'[i].ev \in {"attempt", "initialize_app", "client", "set_ok"}}) = 0
          /\ client' = client
          /\ app' = app
          /\ connection_test' = connection_test
          /\ connection_attempts' = connection_attempts]_vars

C3_Witness ==
    /\ op = "initialize"
    /\ result = "MissingCredentials"
    /\ client # None
    /\ connection_attempts > 0
    /\ connection_attempts = entry_attempts

\* ------------------------------------------------------------------ C4
\* C4: with offline mode enabled initialize never raises: it returns False
\* without a connection attempt when the credential file is missing, False
\* after exactly 3 failed attempts when every attempt fails, True otherwise.
C4_OfflineNeverRaises ==
    (op = "initialize" /\ arg[1].enable_offline_mode) =>
        /\ result \in {"True", "False"}
        /\ arg[1].credentials_path \notin ExistingPaths
              => (result = "False" /\ AttemptsMade = 0)
        /\ (arg[1].credentials_path \in ExistingPaths /\ ~WriteSucceeded)
              => (result = "False" /\ AttemptsMade = 3 /\ Count("log_error_attempt") = 3)
        /\ (arg[1].credentials_path \in ExistingPaths /\ WriteSucceeded)
              => result = "True"

C4_Witness ==
    /\ op = "initialize"
    /\ arg[1].enable_offline_mode
    /\ result = "False"
    /\ AttemptsMade = 3

\* ------------------------------------------------------------------ C5
\* C5 (as claimed): whenever the liveness read of get_client fails and a
\* config is stored, get_client re-initializes and returns a handle verified
\* by a successful test write, without an error; it raises only when no
\* config is stored.  (get_client leaves the stored config as it found it,
\* so the config after the call is the config at its entry.)
C5_Original ==
    (op = "get_client" /\ Has("read_fail", 0)) =>
        IF config # None
        THEN Count("call_initialize") = 1 /\ Returned /\ WriteSucceeded
        ELSE result = "ConnectionLost"

\* C5 (amended): when the liveness read fails and a config is stored,
\* get_client calls initialize exactly once with that config; if that call
\* returns True the caller gets the handle its test write verified and sees
\* no error, if it raises (MissingCredentials, ConnectionFailure) get_client
\* raises the same error; ConnectionLost is raised exactly when no config
\* is stored.
C5_ReconnectOutcome ==
    (op \in GetOps /\ Has("read_fail", 0)) =>
        /\ config # None =>
              /\ Count("call_initialize") = 1
              /\ last_init # None
              /\ last_init[1].config = config[1]
              /\ last_init[1].result = "True" =>
                    /\ Returned
                    /\ returned[1].client = client[1]
                    /\ WriteSucceeded
              /\ last_init[1].result \in {"MissingCredentials", "ConnectionFailure"} =>
                    /\ result = last_init[1].result
                    /\ returned = None
        /\ config = None => Count("call_initialize") = 0
        /\ result = "ConnectionLost" <=> config = None

C5_Witness ==
    /\ op = "get_client"
    /\ Has("read_fail", 0)
    /\ Has("call_initialize", 0)
    /\ Has("set_ok", 2)
    /\ result = "client"

\* ------------------------------------------------------------------ C6
\* C6 (as claimed): every handle get_client returns, and every handle under
\* a reference an accessor returns, was verified live in that same call, by
\* a successful liveness read or by a successful test write.
C6_Original ==
    (op \in GetOps /\ Returned) => (Has("read_ok", 0) \/ WriteSucceeded)

\* ------------------------------------------------------------------ C7
\* C7 (as claimed): once the most recent initialize was called with offline
\* mode enabled and returned False, every get_client fails with
\* OfflineModeActive and performs no liveness read and no reconnection.
C7_Original ==
    [][(/\ last_init # None
        /\ last_init[1].config.enable_offline_mode
        /\ last_init[1].result = "False"
        /\ op' \in GetOps)
       => /\ result' = "OfflineModeActive"
          /\ CountIn(trace', "read_ok") + CountIn(trace', "read_fail") = 0
          /\ CountIn(trace', "call_initialize") = 0]_vars

\* ------------------------------------------------------------------ C8
\* C8: get_client on a manager whose initialize was never called fails with
\* NotInitialized; the raise is the only event of the call: no read, no
\* write, no connection attempt.
C8_NotInitialized ==
    (op \in GetOps /\ last_init = None) =>
        /\ result = "NotInitialized"
        /\ returned = None
        /\ trace = <<Ev("raise_NotInitialized", 0)>>
        /\ client = None
        /\ app = None
        /\ connection_test = None

C8_Witness ==
    /\ op = "get_client"
    /\ last_init = None
    /\ result = "NotInitialized"

\* ------------------------------------------------------------------ C9
\* C9: when a client handle exists, its liveness read fails and no config
\* is stored, get_client fails with ConnectionLost and re-initializes
\* nothing: no initialize call, no connection attempt, no test write.
C9_ConnectionLost ==
    (op \in GetOps /\ Has("read_fail", 0) /\ config = None) =>
        /\ result = "ConnectionLost"
        /\ returned = None
        /\ trace = <<Ev("read_fail", 0), Ev("log_error_lost", 0),
                     Ev("raise_ConnectionLost", 0)>>
        /\ AttemptsMade = 0

C9_Witness ==
    /\ op = "get_client"
    /\ client # None
    /\ config = None
    /\ result = "ConnectionLost"

\* ------------------------------------------------------------------ C10
\* C10 (as claimed): acquiring the connection manager again, by
\* FirebaseConnection() or through firebase_conn, yields the same instance
\* and leaves the client handle, the stored config and the failed-attempt
\* counter as they were.
C10_Original ==
    [][op' \in {"FirebaseConnection", "firebase_conn"}
       => /\ instance' = instance
          /\ acquired' = instance[1]
          /\ client' = client
          /\ config' = config
          /\ connection_attempts' = connection_attempts]_vars

\* ------------------------------------------------------------------ C11
\* C11: every acquisition, by FirebaseConnection() or through
\* firebase_conn, returns the one instance created at import, the instance
\* the earlier acquisition returned; no step creates a second instance, so
\* the counter a handle shows is the counter the other handle changed.
C11_SameInstance ==
    [][/\ instance' = instance
       /\ created' = created
       /\ op' \in {"FirebaseConnection", "firebase_conn"}
             => (acquired' = acquired /\ Some(acquired') = instance')]_vars

C11_Witness ==
    /\ op = "firebase_conn"
    /\ Some(acquired) = instance
    /\ created = 1
    /\ connection_attempts > 0
    /\ connection_attempts = entry_attempts

\* ------------------------------------------------------------------ C12
LogEvents ==
    {"log_error_missing", "log_warning_offline", "log_info_app",
     "log_info_connected", "log_error_attempt", "log_critical",
     "log_warning_cache", "log_error_lost"}

\* a log record precedes the last event (the return or raise) of the call
LoggedFirst ==
    \E i \in DOMAIN trace : i < Len(trace) /\ trace[i].ev \in LogEvents

Failures ==
    {"False", "MissingCredentials", "ConnectionFailure", "NotInitialized",
     "OfflineModeActive", "ConnectionLost"}

\* C12 (as claimed): every failure outcome of initialize and get_client, an
\* error raised or a False return, is preceded in the same call by at least
\* one log record.
C12_Original ==
    (op \in GetOps \cup {"initialize"} /\ result \in Failures) => LoggedFirst

\* C12 (amended): every False return and every MissingCredentials,
\* ConnectionFailure and ConnectionLost is preceded in the same call by a
\* log record; NotInitialized and OfflineModeActive are raised by get_client
\* without any log record.
C12_FailuresLogged ==
    (op \in GetOps \cup {"initialize"}) =>
        /\ result \in {"False", "MissingCredentials", "ConnectionFailure",
                       "ConnectionLost"} => LoggedFirst
        /\ result \in {"NotInitialized", "OfflineModeActive"} =>
              /\ Len(trace) = 1
              /\ ~LoggedFirst

C12_Witness ==
    /\ op = "get_client"
    /\ result = "MissingCredentials"
    /\ Has("read_fail", 0)
    /\ LoggedFirst

\* ------------------------------------------------------------------ C13
\* the path each accessor is documented to resolve to
C13Path ==
    [get_system_state_ref     |-> "system_state/acth_main",
     get_trading_log_ref      |-> "trading_logs",
     get_correlation_data_ref |-> "correlation_data"]

\* the environment's inputs to a call, read back from its events
ReadOkOf(tr) == ~HasIn(tr, "read_fail", 0)

OutsOf(tr) ==
    [a \in 0 .. max_attempts - 1 |->
        IF HasIn(tr, "exc_app", a + 1) THEN "app_fail"
        ELSE IF HasIn(tr, "exc_client", a + 1) THEN "client_fail"
        ELSE IF HasIn(tr, "exc_set", a + 1) THEN "write_fail"
        ELSE "ok"]

\* C13: every accessor call is one get_client call: its events and its
\* effects are those of a single get_client made in the same state under
\* the same behaviour of the backend; when that get_client fails the
\* accessor fails with the same error, otherwise it returns a reference on
\* the handle get_client returned, at the accessor's fixed path.
C13_AccessorsRouteThroughGetClient ==
    [][op' \in Accessors =>
        \E g \in {get_client(Cur, ReadOkOf(trace'), OutsOf(trace'))} :
            /\ trace' = g.st.trace
            /\ client' = g.st.client
            /\ config' = g.st.config
            /\ connection_attempts' = g.st.connection_attempts
            /\ connection_test' = g.st.connection_test
            /\ IF g.result = "client"
               THEN /\ result' = "ref"
                    /\ returned' = Some([client |-> g.returned[1].client,
                                         path |-> C13Path[op']])
               ELSE /\ result' = g.result
                    /\ returned' = None]_vars

C13_Witness ==
    /\ op = "get_trading_log_ref"
    /\ result = "ref"
    /\ returned[1].path = "trading_logs"
    /\ Has("read_fail", 0)
    /\ WriteSucceeded

\* ------------------------------------------------------------------ C14
\* error logs of failed attempts before position i of the trace
FailedBefore(i) ==
    Cardinality({j \in DOMAIN trace : j < i /\ trace[j].ev = "log_error_attempt"})

\* C14: a call in which initialize returned True contains a successful test
\* write; every successful test write carries status "connected" and an
\* attempt field in 1..3 equal to 1 + the number of attempts that failed
\* earlier in the call, and that is what the document then holds.
C14_TrueOnlyAfterWrite ==
    /\ (op = "initialize" /\ result = "True") => WriteSucceeded
    /\ (op \in GetOps /\ Has("call_initialize", 0) /\ last_init[1].result = "True")
          => WriteSucceeded
    /\ \A i \in DOMAIN trace :
          trace[i].ev = "set_ok" =>
              /\ trace[i].n \in 1 .. 3
              /\ trace[i].n = 1 + FailedBefore(i)
              /\ connection_test = Some([status |-> "connected", attempt |-> trace[i].n])
    /\ connection_test # None =>
          /\ connection_test[1].status = "connected"
          /\ connection_test[1].attempt \in 1 .. 3

C14_Witness ==
    /\ op = "initialize"
    /\ result = "True"
    /\ Has("set_ok", 3)
    /\ connection_test = Some([status |-> "connected", attempt |-> 3])

\* ------------------------------------------------------------------ C16
\* C16: after every initialize(c), whatever its outcome, the stored config
\* is c; and the initialize a reconnecting get_client makes is given the
\* config of the most recent initialize call, also when that call failed.
C16_ConfigStoredWhateverOutcome ==
    [][/\ op' = "initialize" =>
             (config' = arg' /\ last_init'[1].config = arg'[1])
       /\ (op' \in GetOps /\ HasIn(trace', "call_initialize", 0)) =>
             /\ last_init # None
             /\ config = Some(last_init[1].config)
             /\ last_init'[1].config = last_init[1].config
             /\ config' = config]_vars

C16_Witness ==
    /\ op \in GetOps
    /\ Has("call_initialize", 0)
    /\ result = "MissingCredentials"
    /\ client # None
    /\ config[1].credentials_path \notin ExistingPaths

\* ------------------------------------------------------------------ C17
\* attempts of a call that raised
FailedIn(tr) == CountIn(tr, "exc_app") + CountIn(tr, "exc_client") + CountIn(tr, "exc_set")

\* C17: each failed attempt adds exactly 1 to the counter; only a
\* successful attempt and the re-construction of the singleton reset it,
\* the start of initialize does not: a call without a successful attempt
\* adds its failed attempts to the value at entry (3 when the retries are
\* exhausted), a call with one leaves 0.
C17_CounterCountsFailures ==
    [][/\ op' \in GetOps \cup {"initialize"} =>
             /\ CountIn(trace', "log_error_attempt") = FailedIn(trace')
             /\ IF CountIn(trace', "set_ok") > 0
                THEN connection_attempts' = 0
                ELSE connection_attempts' = connection_attempts + FailedIn(trace')
             /\ (result' \in {"False", "ConnectionFailure"}
                    /\ CountIn(trace', "attempt") > 0) => FailedIn(trace') = 3
       /\ op' = "FirebaseConnection" => connection_attempts' = 0
       /\ op' = "firebase_conn" => connection_attempts' = connection_attempts]_vars

\* two exhausted calls in a row: the counter exceeds max_attempts
C17_Witness ==
    /\ op = "initialize"
    /\ result = "ConnectionFailure"
    /\ entry_attempts = 3
    /\ connection_attempts = 6

\* ------------------------------------------------------------------ C18
\* C18: the application object is created at most once: an attempt creates
\* it only when none exists, from the config of that call, and once it
\* exists no call replaces or changes it.
C18_AppCreatedOnce ==
    [][/\ app # None => app' = app
       /\ CountIn(trace', "initialize_app") <= 1
       /\ CountIn(trace', "initialize_app") = 1 =>
             /\ app = None
             /\ config' # None
             /\ app' = Some([credentials_path |-> config'[1].credentials_path,
                             project_id |-> config'[1].project_id])
       /\ (app = None /\ app' # None) => CountIn(trace', "initialize_app") = 1]_vars

C18_Witness ==
    /\ op = "initialize"
    /\ result = "True"
    /\ app # None
    /\ app[1].project_id # config[1].project_id
    /\ Count("initialize_app") = 0

\* ------------------------------------------------------------------ C19
\* C19: a get_client call makes at most one liveness read and at most one
\* re-initialization, hence at most 3 connection attempts and one
\* successful test write; no read follows the re-initialization and the
\* call ends with its return or raise.
C19_GetClientBounded ==
    op \in GetOps =>
        /\ Count("read_ok") + Count("read_fail") <= 1
        /\ Count("call_initialize") <= 1
        /\ AttemptsMade <= 3
        /\ Count("set_ok") <= 1
        /\ AttemptsMade > 0 => Count("call_initialize") = 1
        /\ \A i, j \in DOMAIN trace :
              (trace[i].ev = "call_initialize" /\ j > i)
                  => trace[j].ev \notin {"read_ok", "read_fail", "call_initialize"}
        /\ Len(trace) >= 1
        /\ trace[Len(trace)].ev \in
              {"return_client", "raise_NotInitialized", "raise_OfflineModeActive",
               "raise_ConnectionLost", "raise_MissingCredentials",
               "raise_ConnectionFailure"}

C19_Witness ==
    /\ op = "get_client"
    /\ Count("read_fail") = 1
    /\ Count("call_initialize") = 1
    /\ AttemptsMade = 3
    /\ Count("set_ok") = 1

C15Literals == {"binance", "coinbase", "kraken", "ftx", "bybit"}

\* C15: ExchangeType has exactly five members whose literals are binance,
\* coinbase, kraken, ftx and bybit, pairwise distinct; a member's literal
\* looked up gives that member back; a string is accepted by the lookup
\* exactly when it is one of the five literals, and then maps to the member
\* with that literal.
C15_ExchangeTypeRoundTrip ==
    /\ Cardinality(MemberSet) = 5
    /\ ex.pc = "value" => ex.value \in C15Literals
    /\ ex.pc = "round" =>
          /\ ex.found = Some(ex.member)
          /\ \A m \in MemberSet : ExchangeValue(m) = ex.value => m = ex.member
    /\ ex.pc = "parsed" =>
          /\ ex.found # None <=> ex.text \in C15Literals
          /\ ex.found # None =>
                (ex.found[1] \in MemberSet /\ ExchangeValue(ex.found[1]) = ex.text)
          /\ ex.text \in C15Literals =>
                \E m \in MemberSet : ex.found = Some(m)

C15_Witness ==
    /\ ex.pc = "round"
    /\ ex.member = "BYBIT"
    /\ ex.value = "bybit"
    /\ ex.found = Some("BYBIT")

====
